---- MODULE Spec2Model ----
(***************************************************************************)
(* Model of sqlt / sqlter: the sql template tag, raw, escape and the       *)
(* transaction accumulator.                                                *)
(*                                                                         *)
(* Two builds of the library are in the repository and both are modelled:  *)
(*   "src"  : src/src/index.js    (CommonJS, synchronous transaction)      *)
(*   "dist" : src/unnamed/part_001 (ES module, async transaction with      *)
(*            rollback).  The TypeScript source embedded in                *)
(*            src/src/__tests__/index.test.ts has the same sql, raw,       *)
(*            escape and caseWhen as "dist".                               *)
(*                                                                         *)
(* A JavaScript string is a sequence of UTF-16 code units (integers).      *)
(* A JavaScript value is a record [kind, val]:                             *)
(*   kind "undefined" | "null"            val = <<>>                       *)
(*   kind "number"                        val = the integer                *)
(*   kind "boolean"                       val = TRUE / FALSE               *)
(*   kind "string"                        val = the code units             *)
(*   kind "array"                         val = the sequence of elements   *)
(*   kind "object"                        val = the own properties in the  *)
(*                                         order they were inserted, each  *)
(*                                         [key |-> string, value |-> v]   *)
(*   kind "Raw"                           val = [value, params]            *)
(***************************************************************************)
EXTENDS Integers, Sequences, FiniteSets, TLC

VARIABLES
    build,      \* which build of the library is loaded: "src" or "dist"
    pc,         \* position of the caller: "call" before the call, "done" after
    strings,    \* sql: the template's literal segments
    values,     \* sql: the interpolated values
    stmt,       \* sql: the returned {query, params}
    input,      \* escape: the argument
    output,     \* escape: the returned string
    queries,    \* transaction: the closure's queries array
    params,     \* transaction: the closure's params array
    returned,   \* transaction: the query of every object commit() returned
    calls,      \* transaction: the calls issued so far, in program order
    ret,        \* transaction: what the last call returned
    helper      \* the helper call whose result the template interpolates

vars == <<build, pc, strings, values, stmt, input, output,
          queries, params, returned, calls, ret, helper>>

sqlVars == <<strings, values, stmt>>
escVars == <<input, output>>
txVars  == <<queries, params, returned, calls, ret>>

----------------------------------------------------------------------------
(* JavaScript values *)

Undefined == [kind |-> "undefined", val |-> <<>>]
Null      == [kind |-> "null", val |-> <<>>]
Num(n)    == [kind |-> "number", val |-> n]
Bool(b)   == [kind |-> "boolean", val |-> b]
Str(s)    == [kind |-> "string", val |-> s]
Arr(a)    == [kind |-> "array", val |-> a]
Obj(o)    == [kind |-> "object", val |-> o]
Prop(k, v) == [key |-> k, value |-> v]

\* typeof value
typeof(value) ==
    CASE value.kind = "undefined" -> "undefined"
      [] value.kind = "number"    -> "number"
      [] value.kind = "boolean"   -> "boolean"
      [] value.kind = "string"    -> "string"
      [] OTHER                    -> "object"   \* null, arrays, objects, Raw

\* Array.isArray(value)
isArray(value) == value.kind = "array"

\* value instanceof Raw
instanceofRaw(value) == value.kind = "Raw"

\* String.prototype.includes
includes(s, sub) ==
    \E i \in 0..(Len(s) - Len(sub)) : SubSeq(s, i + 1, i + Len(sub)) = sub

\* Array.prototype.join on an array of strings
RECURSIVE join(_, _)
join(parts, sep) ==
    IF Len(parts) = 0 THEN <<>>
    ELSE IF Len(parts) = 1 THEN parts[1]
    ELSE parts[1] \o sep \o join(Tail(parts), sep)

\* values[i] of a JavaScript array: undefined past the end (i is 1-based here)
at(a, i) == IF i \in 1..Len(a) THEN a[i] ELSE Undefined

(* Object.entries: own enumerable string-keyed properties in property order: *)
(* the keys that are array indices ("0", "1", ... canonical decimal, below   *)
(* 2^32 - 1) first, in ascending numeric order, then the other keys in the   *)
(* order they were inserted.                                                 *)
IsDigit(c) == c \in 48..57

\* a < b for decimal strings without leading zeros: shorter, or same length
\* and smaller at the first digit that differs
IndexLess(a, b) ==
    \/ Len(a) < Len(b)
    \/ /\ Len(a) = Len(b)
       /\ \E i \in 1..Len(a) :
             /\ a[i] < b[i]
             /\ \A j \in 1..(i - 1) : a[j] = b[j]

\* "4294967295", 2^32 - 1: array indices are the integers below it
MaxIndexBound == <<52, 50, 57, 52, 57, 54, 55, 50, 57, 53>>

IsArrayIndex(k) ==
    /\ Len(k) > 0
    /\ \A i \in 1..Len(k) : IsDigit(k[i])
    /\ (Len(k) = 1 \/ k[1] # 48)
    /\ IndexLess(k, MaxIndexBound)

\* ascending numeric order of properties whose keys are array indices
RECURSIVE SortByIndex(_)
SortByIndex(ps) ==
    IF Len(ps) = 0 THEN <<>>
    ELSE LET m == CHOOSE i \in 1..Len(ps) :
                     \A j \in 1..Len(ps) : ~IndexLess(ps[j].key, ps[i].key)
             rest == [j \in 1..(Len(ps) - 1) |-> IF j < m THEN ps[j] ELSE ps[j + 1]]
         IN  <<ps[m]>> \o SortByIndex(rest)

\* Object.entries as if every key kept its insertion position
ObjectEntriesInserted(value) == value.val

ObjectEntries(value) ==
    LET IsIdx(p) == IsArrayIndex(p.key)
        NotIdx(p) == ~IsArrayIndex(p.key)
    IN  SortByIndex(SelectSeq(value.val, IsIdx)) \o SelectSeq(value.val, NotIdx)

----------------------------------------------------------------------------
(* Raw and raw *)

\* src/src/index.js: class Raw has the one field value; raw takes one argument
RawSrc(value) == [kind |-> "Raw", val |-> [value |-> value, params |-> Undefined]]
rawSrc(value, ps) == RawSrc(value)

\* part_001: class Raw has value and params; raw passes both on
RawDist(value, ps) == [kind |-> "Raw", val |-> [value |-> value, params |-> ps]]
rawDist(value, ps) == RawDist(value, ps)

raw(b, value, ps) == IF b = "src" THEN rawSrc(value, ps) ELSE rawDist(value, ps)

----------------------------------------------------------------------------
(* sql *)

\* the marker text sql` looked for in string values
Marker == <<115, 113, 108, 96>>

\* value.map(() => "?").join(", ")
ArrayPlaceholders(value) ==
    join([i \in 1..Len(value.val) |-> <<63>>], <<44, 32>>)

\* entries.map(([key]) => `${key} = ?`).join(", ")
ObjectPlaceholders(entries) ==
    join([i \in 1..Len(entries) |-> entries[i].key \o <<32, 61, 32, 63>>], <<44, 32>>)

\* entries.map(([, v]) => v)
EntryValues(entries) == [i \in 1..Len(entries) |-> entries[i].value]

\* ArrayBranch with params.push(value) in place of params.push(...value)
ArrayBranchUnspread(acc, str, value) ==
    [result |-> acc.result \o str \o <<40>> \o ArrayPlaceholders(value) \o <<41>>,
     params |-> Append(acc.params, value)]

\* if (Array.isArray(value)) { ... }: "(?, ?)" and every element pushed
ArrayBranch(acc, str, value) ==
    [result |-> acc.result \o str \o <<40>> \o ArrayPlaceholders(value) \o <<41>>,
     params |-> acc.params \o value.val]

\* if (typeof value === "object" && !(value instanceof Raw)) { ... }
ObjectBranch(acc, str, value) ==
    LET entries == ObjectEntries(value)
    IN  [result |-> acc.result \o str \o ObjectPlaceholders(entries),
         params |-> acc.params \o EntryValues(entries)]

\* ScalarBranch with booleans coerced to 1 and 0 before they are pushed
ScalarBranchCoerced(acc, str, value) ==
    [result |-> acc.result \o str \o <<63>>,
     params |-> Append(acc.params,
                       IF value.kind = "boolean"
                       THEN Num(IF value.val THEN 1 ELSE 0) ELSE value)]

\* params.push(value); return result + str + "?"
ScalarBranch(acc, str, value) ==
    [result |-> acc.result \o str \o <<63>>,
     params |-> Append(acc.params, value)]

\* part_001 only: if (value instanceof Raw) return result + str + value.value
RawBranch(acc, str, value) ==
    [result |-> acc.result \o str \o value.val.value,
     params |-> acc.params]

\* the callback without its null check: null and undefined bound like scalars
NullBranchBound(acc, str, value) ==
    [result |-> acc.result \o str \o <<63>>, params |-> Append(acc.params, value)]

\* return result + str (null and undefined)
NullBranch(acc, str, value) ==
    [result |-> acc.result \o str, params |-> acc.params]

(* The reduce callback of src/src/index.js.  acc.result is the reduce       *)
(* accumulator, acc.params the params array of the enclosing sql call.      *)
(* A Raw is neither an array nor a non-Raw object: it falls through to the  *)
(* last branch.                                                             *)
reducerSrc(acc, str, value) ==
    IF typeof(value) = "string" /\ includes(value.val, Marker)
    THEN acc
    ELSE IF value.kind # "undefined" /\ value.kind # "null"
    THEN IF isArray(value)
         THEN ArrayBranch(acc, str, value)
         ELSE IF typeof(value) = "object" /\ ~instanceofRaw(value)
         THEN ObjectBranch(acc, str, value)
         ELSE ScalarBranch(acc, str, value)
    ELSE NullBranch(acc, str, value)

(* The reduce callback of part_001 (and of the TypeScript source). *)
reducerDist(acc, str, value) ==
    IF typeof(value) = "string" /\ includes(value.val, Marker)
    THEN acc
    ELSE IF value.kind # "undefined" /\ value.kind # "null"
    THEN IF instanceofRaw(value)
         THEN RawBranch(acc, str, value)
         ELSE IF isArray(value)
         THEN ArrayBranch(acc, str, value)
         ELSE IF typeof(value) = "object" /\ ~instanceofRaw(value)
         THEN ObjectBranch(acc, str, value)
         ELSE ScalarBranch(acc, str, value)
    ELSE NullBranch(acc, str, value)

reducer(b, acc, str, value) ==
    IF b = "src" THEN reducerSrc(acc, str, value) ELSE reducerDist(acc, str, value)

\* strings.reduce(callback, "") from segment i on
RECURSIVE reduce(_, _, _, _, _)
reduce(b, ss, vs, i, acc) ==
    IF i > Len(ss) THEN acc
    ELSE reduce(b, ss, vs, i + 1, reducer(b, acc, ss[i], at(vs, i)))

sql(b, ss, vs) ==
    LET r == reduce(b, ss, vs, 1, [result |-> <<>>, params |-> <<>>])
    IN  [query |-> r.result, params |-> r.params]

----------------------------------------------------------------------------
(* caseWhen, limit and the conditional idiom *)

\* `WHEN ${field} = ? THEN ?`
WhenClause(field) ==
    <<87, 72, 69, 78, 32>> \o field \o <<32, 61, 32, 63, 32, 84, 72, 69, 78, 32, 63>>

\* Object.entries(cases).map(() => `WHEN ${field} = ? THEN ?`).join(" ")
Conditions(field, cases) ==
    join([i \in 1..Len(ObjectEntries(cases)) |-> WhenClause(field)], <<32>>)

\* `CASE ${conditions} END`
CaseText(field, cases) ==
    <<67, 65, 83, 69, 32>> \o Conditions(field, cases) \o <<32, 69, 78, 68>>

\* Object.entries(cases).flatMap(([condition, result]) => [condition, result])
RECURSIVE FlatMapEntries(_)
FlatMapEntries(entries) ==
    IF Len(entries) = 0 THEN <<>>
    ELSE <<Str(entries[1].key), entries[1].value>> \o FlatMapEntries(Tail(entries))

\* src/src/index.js: the fragment carries the text only
caseWhenSrc(field, cases) == rawSrc(CaseText(field.val, cases), Undefined)

\* part_001: the fragment carries the text and the flattened entries
caseWhenDist(field, cases) ==
    rawDist(CaseText(field.val, cases), Arr(FlatMapEntries(ObjectEntries(cases))))

caseWhen(b, field, cases) ==
    IF b = "src" THEN caseWhenSrc(field, cases) ELSE caseWhenDist(field, cases)

\* limit: raw is called with the text alone in both builds
limit(b, count, offset) ==
    IF offset.kind # "undefined"
    THEN raw(b, <<76, 73, 77, 73, 84, 32, 63, 32, 79, 70, 70, 83, 69, 84, 32, 63>>, Undefined)
    ELSE raw(b, <<76, 73, 77, 73, 84, 32, 63>>, Undefined)

\* the object literal { query, params } that sql returns, as a value
StatementObject(s) ==
    Obj(<<Prop(<<113, 117, 101, 114, 121>>, Str(s.query)),
          Prop(<<112, 97, 114, 97, 109, 115>>, Arr(s.params))>>)

\* cond ? sql`...` : ""
Conditional(b, cond, ss, vs) ==
    IF cond.val THEN StatementObject(sql(b, ss, vs)) ELSE Str(<<>>)

\* the value a helper call evaluates to
HelperResult(b, h) ==
    CASE h.fn = "caseWhen" -> caseWhen(b, h.args[1], h.args[2])
      [] h.fn = "limit"    -> limit(b, at(h.args, 1), at(h.args, 2))
      [] h.fn = "cond"     -> Conditional(b, h.args[1], h.strings, h.values)

----------------------------------------------------------------------------
(* escape (the same function in both builds) *)

\* the character class of the regular expression: [\0\x08\x09\x1a\n\r"'\\\%]
EscapeClass == {0, 8, 9, 26, 10, 13, 34, 39, 92, 37}

\* the callback without its case for Ctrl-Z
escapeCallbackNoCtrlZ(char) ==
    CASE char = 0   -> <<92, 48>>
      [] char = 8   -> <<92, 98>>
      [] char = 9   -> <<92, 116>>
      [] char = 10  -> <<92, 110>>
      [] char = 13  -> <<92, 114>>
      [] char \in {34, 39, 92, 37} -> <<92, char>>
      [] OTHER      -> <<char>>

\* the replace callback: the switch on the matched character
escapeCallback(char) ==
    CASE char = 0   -> <<92, 48>>
      [] char = 8   -> <<92, 98>>
      [] char = 9   -> <<92, 116>>
      [] char = 26  -> <<92, 122>>
      [] char = 10  -> <<92, 110>>
      [] char = 13  -> <<92, 114>>
      [] char \in {34, 39, 92, 37} -> <<92, char>>
      [] OTHER      -> <<char>>

\* String.prototype.replace with a global one-character class and a callback
RECURSIVE replace(_)
replace(value) ==
    IF Len(value) = 0 THEN <<>>
    ELSE (IF Head(value) \in EscapeClass THEN escapeCallback(Head(value))
          ELSE <<Head(value)>>) \o replace(Tail(value))

escape(value) == replace(value)

----------------------------------------------------------------------------
(* transaction: the closure state is [queries, params] *)

Statement(q, ps) == [kind |-> "Statement", val |-> [query |-> q, params |-> ps]]

\* an async function returns a promise already resolved with its return value
Promise(v) == [kind |-> "Promise", val |-> v]

\* what the caller gets from a method: the value ("src") or a promise of it
Return(b, v) == IF b = "src" THEN v ELSE Promise(v)

\* the value a caller observes: the value itself, or what the promise resolves to
Resolved(r) == IF r.kind = "Promise" THEN r.val ELSE r

\* add whose pushes happen only after an await: not yet done when it returns
addDeferred(b, st, ss, vs) == st

\* add: queries.push(query); params.push(...queryParams)
add(b, st, ss, vs) ==
    LET s == sql(b, ss, vs)
    IN  [queries |-> Append(st.queries, s.query),
         params  |-> st.params \o s.params]

\* commit joining with ";" in place of "; "
commitTight(st) == Statement(join(st.queries, <<59>>), st.params)

\* commit: { query: queries.join("; "), params }
commit(st) == Statement(join(st.queries, <<59, 32>>), st.params)

\* rollback that forgets params.length = 0
rollbackQueriesOnly(st) == [queries |-> <<>>, params |-> st.params]

\* rollback (part_001 only): queries.length = 0; params.length = 0
rollback(st) == [queries |-> <<>>, params |-> <<>>]

----------------------------------------------------------------------------
(* The inputs the model draws *)

Builds == {"src", "dist"}

\* the largest number of interpolated values in a template
MaxValues == 2
\* the largest number of calls made on one transaction object
MaxCalls == 3
\* the longest string given to escape
MaxEscapeLen == 3

\* literal segments: "" and "a?"
Segments == {<<>>, <<97, 63>>}

\* numbers, booleans and strings without the marker: 1, 0, true, false, "J", ""
PlainScalars ==
    {Num(1), Num(0), Bool(TRUE), Bool(FALSE), Str(<<74>>), Str(<<>>)}

\* strings containing sql`: "sql`" and "xsql`y"
MarkerStrings == {Str(Marker), Str(<<120>> \o Marker \o <<121>>)}

\* [], [2, "a", true]
Arrays == {Arr(<<>>), Arr(<<Num(2), Str(<<97>>), Bool(TRUE)>>)}

\* {b: 1, a: "J"}, {2: "J", 1: true}, {b: 0, 10: 1, 9: 2}
Objects ==
    {Obj(<<Prop(<<98>>, Num(1)), Prop(<<97>>, Str(<<74>>))>>),
     Obj(<<Prop(<<50>>, Str(<<74>>)), Prop(<<49>>, Bool(TRUE))>>),
     Obj(<<Prop(<<98>>, Num(0)), Prop(<<49, 48>>, Num(1)), Prop(<<57>>, Num(2))>>)}

\* raw("N()") and raw("C?", ["a", 1]), as the loaded build constructs them
Raws(b) ==
    {raw(b, <<78, 40, 41>>, Undefined),
     raw(b, <<67, 63>>, Arr(<<Str(<<97>>), Num(1)>>))}

Values(b) ==
    PlainScalars \cup MarkerStrings \cup {Null, Undefined}
    \cup Arrays \cup Objects \cup Raws(b)

\* the alphabet of escape's inputs: the ten special characters, "a" and "0"
EscapeAlphabet == EscapeClass \cup {97, 48}

EscapeInputs ==
    UNION {[1..n -> EscapeAlphabet] : n \in 0..MaxEscapeLen}

\* the object commit() returned k-th, as its holder reads it: query is the
\* string joined at that time, params is the closure's params array itself
ReturnedStatement(k) == Statement(returned[k], params)

\* the templates given to add:  i(${"J"})   u   w${[1, 2]}
AddInputs ==
    {[strings |-> <<<<105, 40>>, <<41>>>>, values |-> <<Str(<<74>>)>>],
     [strings |-> <<<<117>>>>, values |-> <<>>],
     [strings |-> <<<<119>>, <<>>>>, values |-> <<Arr(<<Num(1), Num(2)>>)>>]}

Call(op, ss, vs) == [op |-> op, strings |-> ss, values |-> vs]

NoStatement == [query |-> <<>>, params |-> <<>>]

----------------------------------------------------------------------------
(* The state machines *)

SqlIdle == strings = <<>> /\ values = <<>> /\ stmt = NoStatement
EscIdle == input = <<>> /\ output = <<>>
TxIdle  == /\ queries = <<>> /\ params = <<>> /\ returned = <<>>
           /\ calls = <<>> /\ ret = Undefined

\* no helper call is part of the run
NoHelper == [fn |-> "none", args |-> <<>>, strings |-> <<>>, values |-> <<>>]
HelperIdle == helper = NoHelper

\* a caller about to evaluate a tagged template sql`...`
InitSql ==
    /\ build \in Builds
    /\ pc = "call"
    /\ \E n \in 0..MaxValues :
          /\ strings \in [1..(n + 1) -> Segments]
          /\ values \in [1..n -> Values(build)]
    /\ stmt = NoStatement
    /\ EscIdle /\ TxIdle /\ HelperIdle

CallSql ==
    /\ pc = "call"
    /\ pc' = "done"
    /\ stmt' = sql(build, strings, values)
    /\ UNCHANGED <<build, strings, values, escVars, txVars, helper>>

SpecSql == InitSql /\ [][CallSql]_vars

\* the helper calls the model draws
\* caseWhen("s", cases) for cases {}, {a: 1, i: 0}, {2: "J", 1: true}, {b: 0, 10: 1, 9: 2}
CaseWhenCalls ==
    {[fn |-> "caseWhen", args |-> <<Str(<<115>>), c>>, strings |-> <<>>, values |-> <<>>] :
        c \in Objects \cup {Obj(<<>>),
                            Obj(<<Prop(<<97>>, Num(1)), Prop(<<105>>, Num(0))>>)}}

\* limit(10), limit(0), limit(10, 20), limit(10, 0), limit(10, undefined)
LimitCalls ==
    {[fn |-> "limit", args |-> a, strings |-> <<>>, values |-> <<>>] :
        a \in {<<Num(10)>>, <<Num(0)>>, <<Num(10), Num(20)>>, <<Num(10), Num(0)>>,
               <<Num(10), Undefined>>}}

\* cond ? sql`a?` : "",  cond ? sql`a?${1}` : "",  cond ? sql`${"J"}a?${[2, "a", true]}` : ""
ConditionalCalls ==
    {[fn |-> "cond", args |-> <<Bool(c)>>, strings |-> t.strings, values |-> t.values] :
        c \in BOOLEAN,
        t \in {[strings |-> <<<<97, 63>>>>, values |-> <<>>],
               [strings |-> <<<<97, 63>>, <<>>>>, values |-> <<Num(1)>>],
               [strings |-> <<<<>>, <<97, 63>>, <<>>>>,
                values |-> <<Str(<<74>>), Arr(<<Num(2), Str(<<97>>), Bool(TRUE)>>)>>]}}

HelperCalls == CaseWhenCalls \cup LimitCalls \cup ConditionalCalls

\* a caller about to evaluate sql`...${helper call}...`
InitCompose ==
    /\ build \in Builds
    /\ pc = "helper"
    /\ helper \in HelperCalls
    /\ strings \in [1..2 -> Segments]
    /\ values = <<>>
    /\ stmt = NoStatement
    /\ EscIdle /\ TxIdle

\* the interpolated expression is evaluated before the tag function is called
CallHelper ==
    /\ pc = "helper"
    /\ pc' = "call"
    /\ values' = <<HelperResult(build, helper)>>
    /\ UNCHANGED <<build, strings, stmt, escVars, txVars, helper>>

NextCompose == CallHelper \/ CallSql

SpecCompose == InitCompose /\ [][NextCompose]_vars

\* a caller about to evaluate escape(input)
InitEscape ==
    /\ build \in Builds
    /\ pc = "call"
    /\ input \in EscapeInputs
    /\ output = <<>>
    /\ SqlIdle /\ TxIdle /\ HelperIdle

CallEscape ==
    /\ pc = "call"
    /\ pc' = "done"
    /\ output' = escape(input)
    /\ UNCHANGED <<build, input, sqlVars, txVars, helper>>

SpecEscape == InitEscape /\ [][CallEscape]_vars

\* a caller holding a fresh transaction object
Init ==
    /\ build \in Builds
    /\ pc = "tx"
    /\ SqlIdle /\ EscIdle /\ TxIdle /\ HelperIdle

Closure == [queries |-> queries, params |-> params]

Add ==
    /\ Len(calls) < MaxCalls
    /\ \E a \in AddInputs :
          LET st == add(build, Closure, a.strings, a.values)
          IN  /\ queries' = st.queries
              /\ params' = st.params
              /\ ret' = Return(build, Undefined)
              /\ calls' = Append(calls, Call("add", a.strings, a.values))
    /\ UNCHANGED <<build, pc, sqlVars, escVars, returned, helper>>

Commit ==
    /\ Len(calls) < MaxCalls
    /\ ret' = Return(build, commit(Closure))
    /\ returned' = Append(returned, commit(Closure).val.query)
    /\ calls' = Append(calls, Call("commit", <<>>, <<>>))
    /\ UNCHANGED <<build, pc, sqlVars, escVars, queries, params, helper>>

\* the object of src/src/index.js has no rollback method
Rollback ==
    /\ build = "dist"
    /\ Len(calls) < MaxCalls
    /\ queries' = rollback(Closure).queries
    /\ params' = rollback(Closure).params
    /\ ret' = Return(build, Undefined)
    /\ calls' = Append(calls, Call("rollback", <<>>, <<>>))
    /\ UNCHANGED <<build, pc, sqlVars, escVars, returned, helper>>

Next == Add \/ Commit \/ Rollback

Spec == Init /\ [][Next]_vars

----------------------------------------------------------------------------
(* Properties of sql, checked under SpecSql *)

\* the statement of the template left of position i, and of the one right of it
Before(i) == sql(build, SubSeq(strings, 1, i - 1), SubSeq(values, 1, i - 1))
After(i) ==
    sql(build, SubSeq(strings, i + 1, Len(strings)), SubSeq(values, i + 1, Len(values)))

\* position i contributed exactly `text` right after segment i, and exactly the
\* parameters `ps`, after those of the earlier values and before those of the later
Spliced(i, text, ps) ==
    /\ stmt.query = Before(i).query \o strings[i] \o text \o After(i).query
    /\ stmt.params = Before(i).params \o ps \o After(i).params

IsPlainScalar(v) ==
    \/ v.kind \in {"number", "boolean"}
    \/ v.kind = "string" /\ ~includes(v.val, Marker)

\* n question marks separated by ", "
RECURSIVE QList(_)
QList(n) ==
    IF n = 0 THEN <<>>
    ELSE IF n = 1 THEN <<63>>
    ELSE <<63, 44, 32>> \o QList(n - 1)

\* "k1 = ?, k2 = ?, ..." for the properties ps in the order given
RECURSIVE SetList(_)
SetList(ps) ==
    IF Len(ps) = 0 THEN <<>>
    ELSE ps[1].key \o <<32, 61, 32, 63>>
         \o (IF Len(ps) = 1 THEN <<>> ELSE <<44, 32>> \o SetList(Tail(ps)))

PropValues(ps) == [j \in 1..Len(ps) |-> ps[j].value]

\* C1: a number, a boolean or a string without the marker at position i gives
\* exactly one "?" right after segment i and exactly one parameter, the value
\* itself, between the parameters of the earlier and of the later values.
C1_ScalarBound ==
    pc = "done" =>
        \A i \in 1..Len(values) :
            IsPlainScalar(values[i]) => Spliced(i, <<63>>, <<values[i]>>)

\* c`${[2, "a", true]}`a?${false}: false bound after the three array elements
C1_Witness ==
    /\ pc = "done"
    /\ Len(values) = 2
    /\ values[1] = Arr(<<Num(2), Str(<<97>>), Bool(TRUE)>>)
    /\ values[2] = Bool(FALSE)
    /\ stmt.params = <<Num(2), Str(<<97>>), Bool(TRUE), Bool(FALSE)>>

\* C2: an array of n elements at position i gives "(" n "?" joined by ", " ")"
\* right after segment i and its n elements as parameters, in order; the empty
\* array gives "()" and no parameter.
C2_ArrayList ==
    pc = "done" =>
        \A i \in 1..Len(values) :
            values[i].kind = "array" =>
                Spliced(i, <<40>> \o QList(Len(values[i].val)) \o <<41>>, values[i].val)

\* `${[]}${[2, "a", true]}`: "()" then "(?, ?, ?)"
C2_Witness ==
    /\ pc = "done"
    /\ Len(values) = 2
    /\ values[1] = Arr(<<>>)
    /\ values[2].kind = "array" /\ Len(values[2].val) = 3
    /\ stmt.params = values[2].val

\* the orders in which a sequence can be rearranged
Rearrangements(o) ==
    {[j \in 1..Len(o) |-> o[f[j]]] :
        f \in {g \in [1..Len(o) -> 1..Len(o)] :
                  \A x, y \in 1..Len(o) : x # y => g[x] # g[y]}}

\* where the property with key k stands in the insertion order o
InsertedAt(o, k) == CHOOSE j \in 1..Len(o) : o[j].key = k

\* e lists the properties inserted as o with the array-index keys first, in
\* ascending numeric order, and the other keys after them in insertion order
IsPropertyOrder(e, o) ==
    /\ e \in Rearrangements(o)
    /\ \A x, y \in 1..Len(e) :
          x < y =>
            /\ IsArrayIndex(e[y].key) => IsArrayIndex(e[x].key)
            /\ IsArrayIndex(e[x].key) /\ IsArrayIndex(e[y].key)
                  => IndexLess(e[x].key, e[y].key)
            /\ ~IsArrayIndex(e[x].key) /\ ~IsArrayIndex(e[y].key)
                  => InsertedAt(o, e[x].key) < InsertedAt(o, e[y].key)

\* C3 as stated: a mapping at position i gives "key = ?" per entry in insertion
\* order, joined by ", ", and the entry values in that order; never sorted.
C3_InsertionOrder ==
    pc = "done" =>
        \A i \in 1..Len(values) :
            values[i].kind = "object" =>
                Spliced(i, SetList(values[i].val), PropValues(values[i].val))

\* C3 amended: a mapping at position i gives "key = ?" per entry, joined by
\* ", " without parentheses, and the entry values in the same order, the order
\* being the object's property order: array-index keys ascending first, then
\* the other keys in insertion order.
C3_PropertyOrder ==
    pc = "done" =>
        \A i \in 1..Len(values) :
            values[i].kind = "object" =>
                \E e \in Rearrangements(values[i].val) :
                    /\ IsPropertyOrder(e, values[i].val)
                    /\ Spliced(i, SetList(e), PropValues(e))

\* `${{b: 0, 10: 1, 9: 2}}`: "9 = ?, 10 = ?, b = ?" with params [2, 1, 0]
C3_Witness ==
    /\ pc = "done"
    /\ Len(values) = 1
    /\ values[1].kind = "object" /\ Len(values[1].val) = 3
    /\ stmt.params = <<Num(2), Num(1), Num(0)>>

\* C4: a Raw without bound values at position i gives its text verbatim right
\* after segment i, no "?" for it and no parameter.
C4_RawVerbatim ==
    pc = "done" =>
        \A i \in 1..Len(values) :
            (values[i].kind = "Raw" /\ values[i].val.params.kind = "undefined")
                => Spliced(i, values[i].val.value, <<>>)

\* C5: a Raw with bound values at position i gives its text verbatim and its
\* bound values as parameters, in order, at the position of the interpolation.
C5_RawBoundValues ==
    pc = "done" =>
        \A i \in 1..Len(values) :
            (values[i].kind = "Raw" /\ values[i].val.params.kind = "array")
                => Spliced(i, values[i].val.value, values[i].val.params.val)

\* the number of "?" in a string
RECURSIVE CountMarkers(_)
CountMarkers(s) ==
    IF Len(s) = 0 THEN 0
    ELSE (IF Head(s) = 63 THEN 1 ELSE 0) + CountMarkers(Tail(s))

\* what the callback appends for value v after an empty segment
Emitted(v) == reducer(build, [result |-> <<>>, params |-> <<>>], <<>>, v).result

RECURSIVE SumOver(_, _)
SumOver(F(_), vs) ==
    IF Len(vs) = 0 THEN 0 ELSE F(Head(vs)) + SumOver(F, Tail(vs))

\* "?" emitted for a scalar, array or mapping value; none counted for the others
NonRawMarkers(v) ==
    IF v.kind \in {"number", "boolean", "string", "array", "object"}
    THEN CountMarkers(Emitted(v)) ELSE 0

\* the bound values a Raw carries
RawBoundValues(v) ==
    IF v.kind = "Raw" /\ v.val.params.kind = "array" THEN Len(v.val.params.val) ELSE 0

\* C6: the "?" emitted for scalar, array and mapping values number
\* params.length minus the parameters that the bound values of the spliced
\* Raws contribute.
C6_MarkerCount ==
    pc = "done" =>
        SumOver(NonRawMarkers, values)
            = Len(stmt.params) - SumOver(RawBoundValues, values)

----------------------------------------------------------------------------
(* Properties of the transaction object, checked under Spec *)

LastCall == calls[Len(calls)]
EarlierCalls == SubSeq(calls, 1, Len(calls) - 1)

\* the statements sql gives for a sequence of add calls
StatementsOf(cs) == [k \in 1..Len(cs) |-> sql(build, cs[k].strings, cs[k].values)]

\* the query texts of statements joined with "; "
RECURSIVE JoinedQueries(_)
JoinedQueries(sts) ==
    IF Len(sts) = 0 THEN <<>>
    ELSE sts[1].query
         \o (IF Len(sts) = 1 THEN <<>> ELSE <<59, 32>> \o JoinedQueries(Tail(sts)))

\* the params of statements, concatenated
RECURSIVE FlatParams(_)
FlatParams(sts) ==
    IF Len(sts) = 0 THEN <<>> ELSE sts[1].params \o FlatParams(Tail(sts))

\* a call that failed: a thrown error, or a promise rejected with one
Failed(r) == r.kind = "throw" \/ (r.kind = "Promise" /\ r.val.kind = "throw")

\* C7: commit() after add calls a1..an on a fresh object returns the queries
\* of a1..an joined with "; " in the order added, and their params concatenated
\* in that order.
C7_CommitJoins ==
    (/\ Len(calls) > 0
     /\ LastCall.op = "commit"
     /\ \A k \in 1..(Len(calls) - 1) : calls[k].op = "add")
        => Resolved(ret)
             = Statement(JoinedQueries(StatementsOf(EarlierCalls)),
                         FlatParams(StatementsOf(EarlierCalls)))

\* add`i(${"J"})`, add`w${[1, 2]}`, commit(): "i(?); w(?, ?)" and ["J", 1, 2]
C7_Witness ==
    /\ Len(calls) = 3
    /\ calls[1].op = "add" /\ calls[1].values = <<Str(<<74>>)>>
    /\ calls[2].op = "add" /\ calls[2].values = <<Arr(<<Num(1), Num(2)>>)>>
    /\ calls[3].op = "commit"
    /\ Resolved(ret).kind = "Statement"
    /\ Resolved(ret).val.params = <<Str(<<74>>), Num(1), Num(2)>>

Committed == \E k \in 1..Len(calls) : calls[k].op = "commit"

\* this step is a call of add
AddStep == calls' # calls /\ calls'[Len(calls')].op = "add"

\* C8: once commit() was called, add() fails with an error and leaves the
\* statements and parameters unchanged.  Neither build guards add(): the
\* closure keeps no state besides the two arrays, so add() after commit()
\* pushes onto them as before and the formula is violated.
C8_AddAfterCommitFails ==
    [][(Committed /\ AddStep)
          => (Failed(ret') /\ UNCHANGED <<queries, params>>)]_vars

\* C9: in the build that has rollback, right after rollback() the statements
\* and the parameters are both empty, whatever was added before, and rollback
\* gives no value.
C9_RollbackClears ==
    (Len(calls) > 0 /\ LastCall.op = "rollback")
        => /\ queries = <<>>
           /\ params = <<>>
           /\ Resolved(ret) = Undefined

\* add`i(${"J"})`, add`w${[1, 2]}`, rollback()
C9_Witness ==
    /\ build = "dist"
    /\ Len(calls) = 3
    /\ calls[1].op = "add" /\ calls[1].values = <<Str(<<74>>)>>
    /\ calls[2].op = "add" /\ calls[2].values = <<Arr(<<Num(1), Num(2)>>)>>
    /\ calls[3].op = "rollback"

----------------------------------------------------------------------------
(* Properties of escape, checked under SpecEscape *)

\* the documented escape of one character
Documented(c) ==
    CASE c = 0  -> <<92, 48>>      \* NUL        -> \0
      [] c = 8  -> <<92, 98>>      \* backspace  -> \b
      [] c = 9  -> <<92, 116>>     \* tab        -> \t
      [] c = 26 -> <<92, 122>>     \* Ctrl-Z     -> \z
      [] c = 10 -> <<92, 110>>     \* line feed  -> \n
      [] c = 13 -> <<92, 114>>     \* return     -> \r
      [] c = 34 -> <<92, 34>>      \* "          -> \"
      [] c = 39 -> <<92, 39>>      \* '          -> \'
      [] c = 92 -> <<92, 92>>      \* \          -> \\
      [] c = 37 -> <<92, 37>>      \* %          -> \%
      [] OTHER  -> <<c>>

RECURSIVE DocumentedAll(_)
DocumentedAll(str) ==
    IF Len(str) = 0 THEN <<>> ELSE Documented(Head(str)) \o DocumentedAll(Tail(str))

ControlCharacters == {0, 8, 9, 26, 10, 13}
SpecialCharacters == ControlCharacters \cup {34, 39, 92, 37}

\* C10: escape replaces each of the ten special characters by its
\* two-character escape, keeps every other character, in order; a string
\* without special characters comes back unchanged and no output holds a raw
\* control character of the list.
C10_EscapeTable ==
    pc = "done" =>
        /\ output = DocumentedAll(input)
        /\ (\A j \in 1..Len(input) : input[j] \notin SpecialCharacters)
              => output = input
        /\ \A j \in 1..Len(output) : output[j] \notin ControlCharacters

\* escape of Ctrl-Z ' a gives \z \' a
C10_Witness ==
    /\ pc = "done"
    /\ input = <<26, 39, 97>>
    /\ output = <<92, 122, 92, 39, 97>>

----------------------------------------------------------------------------
(* Properties of the helpers and of their interpolation, checked under     *)
(* SpecCompose                                                             *)

\* n clauses "WHEN <field> = ? THEN ?" separated by one space
RECURSIVE WhenList(_, _)
WhenList(n, field) ==
    IF n = 0 THEN <<>>
    ELSE <<87, 72, 69, 78, 32>> \o field
         \o <<32, 61, 32, 63, 32, 84, 72, 69, 78, 32, 63>>
         \o (IF n = 1 THEN <<>> ELSE <<32>> \o WhenList(n - 1, field))

\* condition key, result, condition key, result, ... for the properties ps
RECURSIVE Interleaved(_)
Interleaved(ps) ==
    IF Len(ps) = 0 THEN <<>>
    ELSE <<Str(ps[1].key), ps[1].value>> \o Interleaved(Tail(ps))

\* C11: caseWhen(field, cases) returns a Raw whose text is "CASE " + one
\* "WHEN <field> = ? THEN ?" per entry, space-joined, + " END", and whose
\* bound values are condition key then result of every entry, interleaved, in
\* insertion order: two bound values per WHEN.
C11_CaseWhenFragment ==
    (pc # "helper" /\ helper.fn = "caseWhen") =>
        LET fragment == values[1]
            field == helper.args[1].val
            cases == helper.args[2].val
        IN  /\ fragment.kind = "Raw"
            /\ fragment.val.value
                 = <<67, 65, 83, 69, 32>> \o WhenList(Len(cases), field) \o <<32, 69, 78, 68>>
            /\ fragment.val.params = Arr(Interleaved(cases))

\* C12: sql`..${limit(count, offset)}..` gives "LIMIT ? OFFSET ?" with count
\* then offset in params at that position; sql`..${limit(count)}..` gives
\* "LIMIT ?" with count in params.
C12_LimitBound ==
    (pc = "done" /\ helper.fn = "limit") =>
        IF at(helper.args, 2).kind # "undefined"
        THEN Spliced(1, <<76, 73, 77, 73, 84, 32, 63, 32, 79, 70, 70, 83, 69, 84, 32, 63>>,
                     <<helper.args[1], helper.args[2]>>)
        ELSE Spliced(1, <<76, 73, 77, 73, 84, 32, 63>>, <<helper.args[1]>>)

\* C13: in sql`..${cond ? sql`...` : ""}..` an enabled branch is spliced as the
\* nested query text with the nested params appended in order; a disabled
\* branch, the empty string, gives no placeholder and no parameter.
C13_ConditionalSpliced ==
    (pc = "done" /\ helper.fn = "cond") =>
        IF helper.args[1].val
        THEN LET nested == sql(build, helper.strings, helper.values)
             IN  Spliced(1, nested.query, nested.params)
        ELSE Spliced(1, <<>>, <<>>)

----------------------------------------------------------------------------
(* Properties of null, undefined and marker strings, checked under SpecSql *)

\* C14: null or undefined at position i gives segment i and nothing else: no
\* "?", no text, no parameter; the rest of the template is processed as usual.
C14_NullSkipped ==
    pc = "done" =>
        \A i \in 1..Len(values) :
            values[i].kind \in {"null", "undefined"} => Spliced(i, <<>>, <<>>)

\* `a?${null}a?${1}`: "a?a??" with params [1]
C14_Witness ==
    /\ pc = "done"
    /\ Len(values) = 2
    /\ values[1] = Null
    /\ values[2] = Num(1)
    /\ strings = <<<<97, 63>>, <<97, 63>>, <<>>>>
    /\ stmt = [query |-> <<97, 63, 97, 63, 63>>, params |-> <<Num(1)>>]

\* C15: a string containing sql` at position i still gives segment i, then no
\* "?" and no parameter, so that every literal segment is in the query, in
\* order.
C15_MarkerKeepsSegment ==
    pc = "done" =>
        \A i \in 1..Len(values) :
            (values[i].kind = "string" /\ includes(values[i].val, Marker))
                => Spliced(i, <<>>, <<>>)

----------------------------------------------------------------------------
(* Properties of the async transaction object and of the objects commit()  *)
(* returned, checked under Spec                                            *)

\* the arrays after the calls cs made one after the other, each complete
\* before the next starts
RECURSIVE SequentialEffect(_)
SequentialEffect(cs) ==
    IF Len(cs) = 0 THEN [queries |-> <<>>, params |-> <<>>]
    ELSE LET before == SequentialEffect(SubSeq(cs, 1, Len(cs) - 1))
             c == cs[Len(cs)]
             s == sql(build, c.strings, c.values)
         IN  CASE c.op = "add" ->
                    [queries |-> Append(before.queries, s.query),
                     params |-> before.params \o s.params]
               [] c.op = "rollback" -> [queries |-> <<>>, params |-> <<>>]
               [] OTHER -> before

\* query texts joined with "; "
JoinedTexts(qs) == JoinedQueries([k \in 1..Len(qs) |-> [query |-> qs[k]]])

\* C16: in the async build every call has taken effect when it returns its
\* promise: after calls issued in program order without awaiting, the arrays
\* are those of the calls made one after the other, and commit() resolves with
\* the statements in call order.
C16_AsyncIsSequential ==
    build = "dist" =>
        /\ Closure = SequentialEffect(calls)
        /\ (Len(calls) > 0 => ret.kind = "Promise")
        /\ (Len(calls) > 0 /\ LastCall.op = "commit")
              => LET seen == SequentialEffect(EarlierCalls)
                 IN  Resolved(ret) = Statement(JoinedTexts(seen.queries), seen.params)

\* add`i(${"J"})`, rollback(), add`w${[1, 2]}` without awaiting: ["w(?, ?)"], [1, 2]
C16_Witness ==
    /\ build = "dist"
    /\ Len(calls) = 3
    /\ calls[1].op = "add" /\ calls[1].values = <<Str(<<74>>)>>
    /\ calls[2].op = "rollback"
    /\ calls[3].op = "add"
    /\ params = <<Num(1), Num(2)>>
    /\ Len(queries) = 1
    /\ ret.kind = "Promise"

\* C17: an object commit() returned is a snapshot: no later call changes its
\* query or its params.
C17_ReturnedSnapshot ==
    [][\A k \in 1..Len(returned) : ReturnedStatement(k)' = ReturnedStatement(k)]_vars

====
